---- MODULE Spec2Model ----
(***************************************************************************)
(* Model of src/context/AuthContext.tsx: the AuthProvider (user, token,    *)
(* isLoading; checkSession, login, register, updateProfile, logout) and    *)
(* the GDProvider (sessions, evaluations, isLoading; fetchData,            *)
(* createSession, submitEvaluation, getSessionsForUser, calculateScores),  *)
(* together with the HTTP backend they talk to.  Every asynchronous        *)
(* handler is split at its awaits: the request is sent by one step, the    *)
(* backend serves it in another, and the handler's continuation runs when  *)
(* the response (or a network failure) is delivered.                       *)
(***************************************************************************)
EXTENDS Integers, Sequences, FiniteSets, TLC

\* ------------------------------------------------------------------ bounds
MaxInvocations == 1     \* handler invocations by the UI in one run
MaxEvaluations == 3     \* evaluations held when calculateScores is applied
MaxSessions == 2        \* sessions held when getSessionsForUser is applied

\* ------------------------------------------------------- values of the model
NoToken == "null"                       \* localStorage.getItem(...) === null
Undefined == "undefined"                \* an optional field that is absent
Accounts == {"u1", "u2"}
NameInputs == {"n1"}                    \* names updateProfile is called with
Unregistered == "unregistered"
StaleToken == "t0"                      \* a token the backend no longer accepts

RoleOf(a) == IF a = "u1" THEN "instructor" ELSE "student"
RollNumberOf(a) == IF a = "u1" THEN "" ELSE "r2"
TokenOf(a) == IF a = "u1" THEN "t1" ELSE "t2"

NoUser == [id |-> "", name |-> "", role |-> "none", rollNumber |-> Undefined]

Criteria(a, r, l, n, i) ==
    [articulation |-> a, relevance |-> r, leadership |-> l,
     nonVerbalCommunication |-> n, impression |-> i]

VARIABLES
    user,          \* AuthProvider: useState<User | null>
    authLoading,   \* AuthProvider: isLoading
    token,         \* localStorage["authToken"]
    sessions,      \* GDProvider: useState<GDSession[]>
    evaluations,   \* GDProvider: useState<Evaluation[]>
    gdLoading,     \* GDProvider: isLoading
    calls,         \* the handlers suspended at an await, and their requests
    mounted,       \* whether the providers' mount effects have run
    invoked,       \* number of handler invocations so far
    loggedOutAt,   \* the invocation that was the latest logout, 0 if none
    dbNames,       \* backend: account -> profile name, or Unregistered
    dbSessions,    \* backend: session rows
    dbEvaluations, \* backend: evaluation rows
    last           \* what the last step did, and how the handler ended

vars == <<user, authLoading, token, sessions, evaluations, gdLoading, calls,
          mounted, invoked, loggedOutAt, dbNames, dbSessions, dbEvaluations, last>>

authVars == <<user, authLoading, token>>
gdVars == <<sessions, evaluations, gdLoading>>
dbVars == <<dbNames, dbSessions, dbEvaluations>>

Event(op, ev, why) == [op |-> op, ev |-> ev, why |-> why]
Step == Event("none", "step", "none")   \* a step that ends no handler

\* A handler suspended at `await fetch(...)`: the request is on its way.
Request(id, op, pc, u, tk, ss, fs, arg) ==
    [id |-> id, op |-> op, pc |-> pc, usr |-> u, tok |-> tk, sess |-> ss, fs |-> fs,
     arg |-> arg, net |-> "request", status |-> "none", body |-> <<>>]


CanInvoke == mounted /\ invoked < MaxInvocations

\* What `await fetch` can yield for call c: the response the backend gave, or
\* a rejection (network failure) at any time while the call is in flight.
Outcomes(c) ==
    (IF c.net = "response" THEN {c.status} ELSE {}) \cup {"netfail"}

\* ------------------------------------------------------------ AuthProvider
profileToUser(profile) ==
    [id |-> profile.id,
     name |-> profile.name,
     role |-> profile.role,
     rollNumber |-> IF profile.roll_number = "" THEN Undefined
                    ELSE profile.roll_number]

\* GDProvider's useEffect(() => fetchData(), [user]) after setUser(u), and the
\* fetchData() that createSession and submitEvaluation await: the guard, the
\* loading flag and the first request of fetchData, run with user u of the
\* calling closure and the token tk found in storage.
FetchSkips(u) == u = NoUser \/ u.id = ""

FetchReturnsAtOnce(u, tk) == FetchSkips(u) \/ tk = NoToken

FetchCall(c, op, u, tk) ==
    (calls \ {c}) \cup
    (IF FetchReturnsAtOnce(u, tk) THEN {}
     ELSE {Request(c.id, op, "sessions", u, tk, <<>>, <<>>, <<>>)})

FetchLoading_NoReset(u, tk, cur) == IF FetchSkips(u) THEN cur ELSE TRUE

FetchLoading(u, tk, cur) ==
    IF FetchSkips(u) THEN cur ELSE ~FetchReturnsAtOnce(u, tk)

\* useEffect(() => { checkSession() }, []) up to its await, and GDProvider's
\* mount effect (fetchData with user = null returns at once).
CheckSessionStart ==
    /\ ~mounted
    /\ mounted' = TRUE
    /\ IF token # NoToken
       THEN /\ calls' = {Request(0, "checkSession", "check", user, token, <<>>, <<>>, <<>>)}
            /\ UNCHANGED authLoading
            /\ last' = Step
       ELSE /\ authLoading' = FALSE
            /\ UNCHANGED calls
            /\ last' = Event("checkSession", "done", "noToken")
    /\ UNCHANGED <<user, token, gdVars, invoked, loggedOutAt, dbVars>>

CheckSessionKeepsToken_Always(out) == TRUE
CheckSessionKeepsToken(out) == out = "ok"

CheckSessionSettle(c) ==
    /\ c.op = "checkSession"
    /\ \E out \in Outcomes(c) :
         /\ IF out = "ok"
            THEN LET u == profileToUser(c.body[1]) IN
                 /\ user' = u
                 /\ calls' = FetchCall(c, "fetchData", u, token)
                 /\ gdLoading' = FetchLoading(u, token, gdLoading)
            ELSE /\ calls' = calls \ {c}
                 /\ UNCHANGED <<user, gdLoading>>
         /\ token' = IF CheckSessionKeepsToken(out) THEN token ELSE NoToken
         /\ authLoading' = FALSE
         /\ last' = Event("checkSession", "done", out)
    /\ UNCHANGED <<sessions, evaluations, mounted, loggedOutAt, invoked, dbVars>>

Login(a) ==
    /\ CanInvoke
    /\ calls' = calls \cup
               {Request(invoked + 1, "login", "post", user, NoToken, <<>>, <<>>, <<a>>)}
    /\ authLoading' = TRUE
    /\ invoked' = invoked + 1
    /\ last' = Step
    /\ UNCHANGED <<user, token, gdVars, mounted, loggedOutAt, dbVars>>

Register(a) ==
    /\ CanInvoke
    /\ calls' = calls \cup
               {Request(invoked + 1, "register", "post", user, NoToken, <<>>, <<>>, <<a>>)}
    /\ authLoading' = TRUE
    /\ invoked' = invoked + 1
    /\ last' = Step
    /\ UNCHANGED <<user, token, gdVars, mounted, loggedOutAt, dbVars>>

\* The token in storage after login/register handled outcome `out`.
TokenAfterSignIn_ClearsOnFailure(out, tk, body) ==
    IF out = "ok" THEN body[1].token ELSE NoToken
TokenAfterSignIn(out, tk, body) == IF out = "ok" THEN body[1].token ELSE tk

\* The continuation of login and of register after `await fetch`.
SignInSettle(c) ==
    /\ c.op \in {"login", "register"}
    /\ \E out \in Outcomes(c) :
         /\ token' = TokenAfterSignIn(out, token, c.body)
         /\ IF out = "ok"
            THEN LET u == profileToUser(c.body[1]) IN
                 /\ user' = u
                 /\ calls' = FetchCall(c, "fetchData", u, token')
                 /\ gdLoading' = FetchLoading(u, token', gdLoading)
                 /\ last' = Event(c.op, "done", out)
            ELSE /\ calls' = calls \ {c}
                 /\ UNCHANGED <<user, gdLoading>>
                 /\ last' = Event(c.op, "error", out)
         /\ authLoading' = FALSE
    /\ UNCHANGED <<sessions, evaluations, mounted, loggedOutAt, invoked, dbVars>>

UpdateProfilePermitted_Always(u) == TRUE
UpdateProfilePermitted(u) == u # NoUser

UpdateProfile(name) ==
    /\ mounted
    /\ IF UpdateProfilePermitted(user)
       THEN /\ CanInvoke
            /\ calls' = calls \cup
                       {Request(invoked + 1, "updateProfile", "put", user, token, <<>>, <<>>, <<name>>)}
            /\ authLoading' = TRUE
            /\ invoked' = invoked + 1
            /\ last' = Step
       ELSE \* throw before any await; `finally` still runs setIsLoading(false)
            /\ authLoading' = FALSE
            /\ last' = Event("updateProfile", "error", "precondition")
            /\ UNCHANGED <<calls, invoked>>
    /\ UNCHANGED <<user, token, gdVars, mounted, loggedOutAt, dbVars>>

\* The token in storage after updateProfile handled outcome `out`: the
\* handler never touches localStorage.
TokenAfterUpdateProfile_ClearsOnFailure(out, tk) == IF out = "ok" THEN tk ELSE NoToken
TokenAfterUpdateProfile(out, tk) == tk

UpdateProfileSettle(c) ==
    /\ c.op = "updateProfile"
    /\ \E out \in Outcomes(c) :
         /\ token' = TokenAfterUpdateProfile(out, token)
         /\ IF out = "ok"
            THEN LET u == profileToUser(c.body[1]) IN
                 /\ user' = u
                 /\ calls' = FetchCall(c, "fetchData", u, token)
                 /\ gdLoading' = FetchLoading(u, token, gdLoading)
                 /\ last' = Event("updateProfile", "done", out)
            ELSE /\ calls' = calls \ {c}
                 /\ UNCHANGED <<user, gdLoading>>
                 /\ last' = Event("updateProfile", "error", out)
         /\ authLoading' = FALSE
    /\ UNCHANGED <<sessions, evaluations, mounted, loggedOutAt, invoked, dbVars>>

UserAfterLogout_Kept(u) == u
UserAfterLogout(u) == NoUser
TokenAfterLogout(tk) == NoToken

\* logout has no await: it runs to its end in one step.
Logout ==
    /\ CanInvoke
    /\ token' = TokenAfterLogout(token)
    /\ user' = UserAfterLogout(user)
    /\ authLoading' = FALSE
    /\ invoked' = invoked + 1
    /\ loggedOutAt' = invoked + 1
    /\ last' = Event("logout", "done", "ok")
    /\ UNCHANGED <<gdVars, calls, mounted, dbVars>>

\* --------------------------------------------------------------- GDProvider
\* The rows of GET /sessions as setSessions stores them (snake_case fields
\* renamed; topic, details, group and dates are carried over unchanged and
\* are left out of the rows).
FormatSession(s) ==
    [id |-> s.id, participants |-> s.participants, evaluators |-> s.evaluators,
     createdBy |-> s.created_by]

FormatSessions(rows) == [i \in 1..Len(rows) |-> FormatSession(rows[i])]

\* formattedSessions.find((s) => s.id === id)?.createdBy
CreatedByOf(ss, id) ==
    IF \E i \in 1..Len(ss) : ss[i].id = id
    THEN ss[CHOOSE i \in 1..Len(ss) :
              ss[i].id = id /\ \A j \in 1..(i - 1) : ss[j].id # id].createdBy
    ELSE Undefined

EvaluatorRole(ss, e) ==
    IF CreatedByOf(ss, e.gd_session_id) = e.evaluator_id THEN "instructor" ELSE "student"

FormatEvaluation(ss, e) ==
    [id |-> e.id, gdSessionId |-> e.gd_session_id, studentId |-> e.student_id,
     evaluatorId |-> e.evaluator_id, evaluatorRole |-> EvaluatorRole(ss, e),
     criteria |-> Criteria(e.articulation, e.relevance, e.leadership,
                           e.non_verbal_communication, e.impression)]

FormatEvaluations(ss, rows) == [i \in 1..Len(rows) |-> FormatEvaluation(ss, rows[i])]

\* What the UI calls createSession and submitEvaluation with.
SessionInputs == {[participants |-> {"r2"}, evaluators |-> {}]}
CriteriaInputs == {Criteria(8, 6, 7, 5, 9)}
StudentInputs == {"u2"}

CreateSessionPermitted_AnyUser(u) == u # NoUser
CreateSessionPermitted(u) == u # NoUser /\ u.role = "instructor"

CreateSession(data) ==
    /\ mounted
    /\ IF CreateSessionPermitted(user)
       THEN /\ CanInvoke
            /\ calls' = calls \cup
                       {Request(invoked + 1, "createSession", "post", user, token, <<>>, <<>>, <<data>>)}
            /\ gdLoading' = TRUE
            /\ invoked' = invoked + 1
            /\ last' = Step
       ELSE \* throw before the try block: nothing else runs
            /\ last' = Event("createSession", "error", "precondition")
            /\ UNCHANGED <<calls, gdLoading, invoked>>
    /\ UNCHANGED <<authVars, sessions, evaluations, mounted, loggedOutAt, dbVars>>

SubmitEvaluationPermitted(u) == u # NoUser

SubmitEvaluation(gdSessionId, studentId, criteria) ==
    /\ mounted
    /\ IF SubmitEvaluationPermitted(user)
       THEN /\ CanInvoke
            /\ calls' = calls \cup
                 {Request(invoked + 1, "submitEvaluation", "post", user, token, sessions, <<>>,
                          <<[gdSessionId |-> gdSessionId, studentId |-> studentId,
                             criteria |-> criteria]>>)}
            /\ gdLoading' = TRUE
            /\ invoked' = invoked + 1
            /\ last' = Step
       ELSE /\ last' = Event("submitEvaluation", "error", "precondition")
            /\ UNCHANGED <<calls, gdLoading, invoked>>
    /\ UNCHANGED <<authVars, sessions, evaluations, mounted, loggedOutAt, dbVars>>

\* The calls in flight after the POST of call c failed: the catch block
\* rethrows, and fetchData is not reached.
CallsAfterFailedPost_Refetches(c) == FetchCall(c, c.op, c.usr, token)
CallsAfterFailedPost(c) == calls \ {c}

\* The continuation of createSession / submitEvaluation after the POST: the
\* append, then `await fetchData()` with the user of the calling closure.
PostSettle(c) ==
    /\ c.op \in {"createSession", "submitEvaluation"}
    /\ c.pc = "post"
    /\ \E out \in Outcomes(c) :
         IF out = "ok"
         THEN /\ IF c.op = "createSession"
                 THEN /\ sessions' = Append(sessions, FormatSession(c.body[1]))
                      /\ UNCHANGED evaluations
                 ELSE /\ evaluations' =
                           Append(evaluations, FormatEvaluation(c.sess, c.body[1]))
                      /\ UNCHANGED sessions
              /\ calls' = FetchCall(c, c.op, c.usr, token)
              \* with no token fetchData returns at once and `finally` ends the call
              /\ gdLoading' = ~FetchReturnsAtOnce(c.usr, token)
              /\ last' = Event(c.op, IF FetchReturnsAtOnce(c.usr, token) THEN "done"
                                     ELSE "appended", out)
         ELSE /\ calls' = CallsAfterFailedPost(c)
              /\ gdLoading' = FALSE
              /\ last' = Event(c.op, "error", out)
              /\ UNCHANGED <<sessions, evaluations>>
    /\ UNCHANGED <<authVars, mounted, loggedOutAt, invoked, dbVars>>

\* fetchData after `await fetch(/sessions)`; a failure is caught inside
\* fetchData, so the handler that awaited it still ends normally.
FetchSessionsSettle(c) ==
    /\ c.op \in {"fetchData", "createSession", "submitEvaluation"}
    /\ c.pc = "sessions"
    /\ \E out \in Outcomes(c) :
         IF out = "ok"
         THEN LET formattedSessions == FormatSessions(c.body) IN
              /\ sessions' = formattedSessions
              /\ calls' = (calls \ {c}) \cup
                    {Request(c.id, c.op, "evaluations", c.usr, c.tok,
                             <<>>, formattedSessions, <<>>)}
              /\ last' = Event(c.op, "sessions", out)
              /\ UNCHANGED gdLoading
         ELSE /\ calls' = calls \ {c}
              /\ gdLoading' = FALSE
              /\ last' = Event(c.op, "done", out)
              /\ UNCHANGED sessions
    /\ UNCHANGED <<authVars, evaluations, mounted, loggedOutAt, invoked, dbVars>>

FetchEvaluationsSettle(c) ==
    /\ c.op \in {"fetchData", "createSession", "submitEvaluation"}
    /\ c.pc = "evaluations"
    /\ \E out \in Outcomes(c) :
         /\ evaluations' = IF out = "ok"
                           THEN FormatEvaluations(c.fs, c.body)
                           ELSE evaluations
         /\ calls' = calls \ {c}
         /\ gdLoading' = FALSE
         /\ last' = Event(c.op, "done", out)
    /\ UNCHANGED <<authVars, sessions, mounted, loggedOutAt, invoked, dbVars>>

\* getSessionsForUser: the two filtered views of `sessions` for user u.
View(p, e) == [participatingSessions |-> p, evaluatingSessions |-> e]

InstructorSessions_ByRollNumber(u, ss) ==
    View(SelectSeq(ss, LAMBDA session : u.rollNumber \in session.participants),
         SelectSeq(ss, LAMBDA session : session.createdBy = u.id))

InstructorSessions(u, ss) ==
    View(<<>>, SelectSeq(ss, LAMBDA session : session.createdBy = u.id))

\* user.rollNumber || ""
RollNumberOrEmpty(u) == IF u.rollNumber = Undefined THEN "" ELSE u.rollNumber

StudentSessions_Exclusive(u, ss) ==
    LET rollNumber == RollNumberOrEmpty(u) IN
    View(SelectSeq(ss, LAMBDA session : rollNumber \in session.participants),
         SelectSeq(ss, LAMBDA session : /\ rollNumber \in session.evaluators
                                        /\ rollNumber \notin session.participants))

StudentSessions(u, ss) ==
    LET rollNumber == RollNumberOrEmpty(u) IN
    View(SelectSeq(ss, LAMBDA session : rollNumber \in session.participants),
         SelectSeq(ss, LAMBDA session : rollNumber \in session.evaluators))

getSessionsForUser(u, ss) ==
    IF u = NoUser THEN View(<<>>, <<>>)
    ELSE IF u.role = "instructor" THEN InstructorSessions(u, ss)
    ELSE StudentSessions(u, ss)

\* sessions.find(...): the first match, or none
getSessionById(ss, id) ==
    LET found == SelectSeq(ss, LAMBDA session : session.id = id) IN
    IF found = <<>> THEN <<>> ELSE <<found[1]>>

getEvaluationsForSession(evs, sessionId) ==
    SelectSeq(evs, LAMBDA e : e.gdSessionId = sessionId)

\* calculateScores.  A JavaScript number is held as the exact fraction
\* <<numerator, denominator>> in lowest terms; the scores are non-negative.
RECURSIVE GCD(_, _)
GCD(a, b) == IF b = 0 THEN a ELSE GCD(b, a % b)

Frac(n, d) == LET g == GCD(n, d) IN <<n \div g, d \div g>>
Num(i) == <<i, 1>>
Plus(x, y) == Frac(x[1] * y[2] + y[1] * x[2], x[2] * y[2])
Over(x, k) == Frac(x[1], x[2] * k)

NumCriteria(c) ==
    [articulation |-> Num(c.articulation), relevance |-> Num(c.relevance),
     leadership |-> Num(c.leadership),
     nonVerbalCommunication |-> Num(c.nonVerbalCommunication),
     impression |-> Num(c.impression)]

emptyCriteria == NumCriteria(Criteria(0, 0, 0, 0, 0))

\* evs.reduce((sum, e) => sum + e.criteria[f], acc)
RECURSIVE ReduceSum(_, _, _)
ReduceSum(evs, f, acc) ==
    IF evs = <<>> THEN acc ELSE ReduceSum(Tail(evs), f, acc + Head(evs).criteria[f])

\* total / count, the quotient of `reduce(...) / peerEvaluations.length`
Mean_Truncated(total, count) == Num(total \div count)
Mean(total, count) == Over(Num(total), count)

PeerAverage(peerEvaluations) ==
    IF Len(peerEvaluations) > 0
    THEN [articulation |->
              Mean(ReduceSum(peerEvaluations, "articulation", 0), Len(peerEvaluations)),
          relevance |->
              Mean(ReduceSum(peerEvaluations, "relevance", 0), Len(peerEvaluations)),
          leadership |->
              Mean(ReduceSum(peerEvaluations, "leadership", 0), Len(peerEvaluations)),
          nonVerbalCommunication |->
              Mean(ReduceSum(peerEvaluations, "nonVerbalCommunication", 0),
                   Len(peerEvaluations)),
          impression |->
              Mean(ReduceSum(peerEvaluations, "impression", 0), Len(peerEvaluations))]
    ELSE emptyCriteria

InstructorScores_Last(instructorEvaluations) ==
    IF Len(instructorEvaluations) > 0
    THEN NumCriteria(instructorEvaluations[Len(instructorEvaluations)].criteria)
    ELSE emptyCriteria

InstructorScores(instructorEvaluations) ==
    IF Len(instructorEvaluations) > 0
    THEN NumCriteria(instructorEvaluations[1].criteria)
    ELSE emptyCriteria

FinalScore_ExcludingAbsent(peer, instructor) ==
    IF instructor = Num(0) THEN peer
    ELSE IF peer = Num(0) THEN instructor
    ELSE Over(Plus(peer, instructor), 2)

FinalScore(peer, instructor) == Over(Plus(peer, instructor), 2)

FinalScores(peerAverage, instructorScores) ==
    [articulation |-> FinalScore(peerAverage.articulation, instructorScores.articulation),
     relevance |-> FinalScore(peerAverage.relevance, instructorScores.relevance),
     leadership |-> FinalScore(peerAverage.leadership, instructorScores.leadership),
     nonVerbalCommunication |->
         FinalScore(peerAverage.nonVerbalCommunication, instructorScores.nonVerbalCommunication),
     impression |-> FinalScore(peerAverage.impression, instructorScores.impression)]

Scores(p, i, f) == [peerAverage |-> p, instructorScores |-> i, finalScores |-> f]

calculateScores(evs, sessionId, studentId) ==
    LET sessionEvaluations ==
            SelectSeq(evs, LAMBDA e : e.gdSessionId = sessionId /\ e.studentId = studentId)
        peerEvaluations == SelectSeq(sessionEvaluations, LAMBDA e : e.evaluatorRole = "student")
        instructorEvaluations ==
            SelectSeq(sessionEvaluations, LAMBDA e : e.evaluatorRole = "instructor")
        peerAverage == PeerAverage(peerEvaluations)
        instructorScores == InstructorScores(instructorEvaluations)
    IN  IF Len(sessionEvaluations) = 0
        THEN Scores(emptyCriteria, emptyCriteria, emptyCriteria)
        ELSE Scores(peerAverage, instructorScores, FinalScores(peerAverage, instructorScores))

\* ----------------------------------------------------------------- backend
ValidToken(tk) == \E a \in Accounts : tk = TokenOf(a) /\ dbNames[a] # Unregistered
AccountOf(tk) == CHOOSE a \in Accounts : tk = TokenOf(a)

Profile(a, names) ==
    [id |-> a, name |-> names[a], role |-> RoleOf(a), roll_number |-> RollNumberOf(a)]

SignInBody(a, names) ==
    [id |-> a, name |-> names[a], role |-> RoleOf(a), roll_number |-> RollNumberOf(a),
     token |-> TokenOf(a)]

Respond(c, status, body) ==
    calls' = (calls \ {c}) \cup
             {[c EXCEPT !.net = "response", !.status = status, !.body = body]}

Pending(c, op, pc) == c.op \in op /\ c.pc = pc /\ c.net = "request"

VisibleTo(a, s) ==
    s.created_by = a \/ RollNumberOf(a) \in (s.participants \cup s.evaluators)

SessionsFor(a) == SelectSeq(dbSessions, LAMBDA s : VisibleTo(a, s))

EvaluationsFor(a) ==
    SelectSeq(dbEvaluations,
              LAMBDA e : \E i \in 1..Len(dbSessions) :
                            dbSessions[i].id = e.gd_session_id /\ VisibleTo(a, dbSessions[i]))

ServeCheckSession(c) ==
    /\ Pending(c, {"checkSession"}, "check")
    /\ ValidToken(c.tok)
    /\ Respond(c, "ok", <<Profile(AccountOf(c.tok), dbNames)>>)
    /\ last' = Step
    /\ UNCHANGED <<authVars, gdVars, mounted, loggedOutAt, invoked, dbVars>>

ServeLogin(c) ==
    /\ Pending(c, {"login"}, "post")
    /\ dbNames[c.arg[1]] # Unregistered
    /\ Respond(c, "ok", <<SignInBody(c.arg[1], dbNames)>>)
    /\ last' = Step
    /\ UNCHANGED <<authVars, gdVars, mounted, loggedOutAt, invoked, dbVars>>

ServeRegister(c) ==
    /\ Pending(c, {"register"}, "post")
    /\ dbNames[c.arg[1]] = Unregistered
    /\ dbNames' = [dbNames EXCEPT ![c.arg[1]] = "n0"]
    /\ Respond(c, "ok", <<SignInBody(c.arg[1], dbNames')>>)
    /\ last' = Step
    /\ UNCHANGED <<authVars, gdVars, mounted, loggedOutAt, invoked, dbSessions, dbEvaluations>>

ServeUpdateProfile(c) ==
    /\ Pending(c, {"updateProfile"}, "put")
    /\ ValidToken(c.tok)
    /\ dbNames' = [dbNames EXCEPT ![AccountOf(c.tok)] = c.arg[1]]
    /\ Respond(c, "ok", <<Profile(AccountOf(c.tok), dbNames')>>)
    /\ last' = Step
    /\ UNCHANGED <<authVars, gdVars, mounted, loggedOutAt, invoked, dbSessions, dbEvaluations>>

ServeSessions(c) ==
    /\ Pending(c, {"fetchData", "createSession", "submitEvaluation"}, "sessions")
    /\ ValidToken(c.tok)
    /\ Respond(c, "ok", SessionsFor(AccountOf(c.tok)))
    /\ last' = Step
    /\ UNCHANGED <<authVars, gdVars, mounted, loggedOutAt, invoked, dbVars>>

ServeEvaluations(c) ==
    /\ Pending(c, {"fetchData", "createSession", "submitEvaluation"}, "evaluations")
    /\ ValidToken(c.tok)
    /\ Respond(c, "ok", EvaluationsFor(AccountOf(c.tok)))
    /\ last' = Step
    /\ UNCHANGED <<authVars, gdVars, mounted, loggedOutAt, invoked, dbVars>>

ServeCreateSession(c) ==
    /\ Pending(c, {"createSession"}, "post")
    /\ ValidToken(c.tok)
    /\ RoleOf(AccountOf(c.tok)) = "instructor"
    /\ LET row == [id |-> Len(dbSessions) + 1,
                   participants |-> c.arg[1].participants,
                   evaluators |-> c.arg[1].evaluators,
                   created_by |-> AccountOf(c.tok)] IN
         /\ dbSessions' = Append(dbSessions, row)
         /\ Respond(c, "ok", <<row>>)
    /\ last' = Step
    /\ UNCHANGED <<authVars, gdVars, mounted, loggedOutAt, invoked, dbNames, dbEvaluations>>

ServeSubmitEvaluation(c) ==
    /\ Pending(c, {"submitEvaluation"}, "post")
    /\ ValidToken(c.tok)
    /\ \E i \in 1..Len(dbSessions) : dbSessions[i].id = c.arg[1].gdSessionId
    /\ LET a == c.arg[1]
           row == [id |-> Len(dbEvaluations) + 1,
                   gd_session_id |-> a.gdSessionId,
                   student_id |-> a.studentId,
                   evaluator_id |-> AccountOf(c.tok),
                   articulation |-> a.criteria.articulation,
                   relevance |-> a.criteria.relevance,
                   leadership |-> a.criteria.leadership,
                   non_verbal_communication |-> a.criteria.nonVerbalCommunication,
                   impression |-> a.criteria.impression] IN
         /\ dbEvaluations' = Append(dbEvaluations, row)
         /\ Respond(c, "ok", <<row>>)
    /\ last' = Step
    /\ UNCHANGED <<authVars, gdVars, mounted, loggedOutAt, invoked, dbNames, dbSessions>>

\* Any request can be answered with a non-2xx status (bad credentials, an
\* invalid token, a refused or failed operation).
ServeReject(c) ==
    /\ c.net = "request"
    /\ Respond(c, "non2xx", <<>>)
    /\ last' = Step
    /\ UNCHANGED <<authVars, gdVars, mounted, loggedOutAt, invoked, dbVars>>

\* ----------------------------------------------------------- specification
\* The rows the backend holds when the application starts: none, a session of
\* instructor u1, or that session with the instructor's evaluation of u2.
InitialSession ==
    [id |-> 1, participants |-> {"r2"}, evaluators |-> {"r2"}, created_by |-> "u1"]

InitialEvaluation ==
    [id |-> 1, gd_session_id |-> 1, student_id |-> "u2", evaluator_id |-> "u1",
     articulation |-> 10, relevance |-> 10, leadership |-> 10,
     non_verbal_communication |-> 10, impression |-> 10]

\* The accounts registered when the application starts, and the token a
\* previous visit left in storage: none, one no longer valid, or the token
\* of a registered account.
OnlyInstructor == [a \in Accounts |-> IF a = "u1" THEN "n0" ELSE Unregistered]
BothAccounts == [a \in Accounts |-> "n0"]

InitialAccounts ==
    {<<NoToken, OnlyInstructor>>, <<StaleToken, OnlyInstructor>>,
     <<TokenOf("u1"), OnlyInstructor>>, <<TokenOf("u2"), BothAccounts>>}

InitialRows ==
    {<<<<>>, <<>>>>, <<<<InitialSession>>, <<>>>>,
     <<<<InitialSession>>, <<InitialEvaluation>>>>}

Init ==
    /\ user = NoUser
    /\ authLoading = TRUE
    /\ \E st \in InitialAccounts : token = st[1] /\ dbNames = st[2]
    /\ sessions = <<>>
    /\ evaluations = <<>>
    /\ gdLoading = FALSE
    /\ calls = {}
    /\ mounted = FALSE
    /\ invoked = 0
    /\ loggedOutAt = 0
    /\ \E db \in InitialRows : dbSessions = db[1] /\ dbEvaluations = db[2]
    /\ last = Step

Next ==
    \/ CheckSessionStart
    \/ \E c \in calls : CheckSessionSettle(c)
    \/ \E a \in Accounts : Login(a)
    \/ \E a \in Accounts : Register(a)
    \/ \E c \in calls : SignInSettle(c)
    \/ \E n \in NameInputs : UpdateProfile(n)
    \/ \E c \in calls : UpdateProfileSettle(c)
    \/ Logout
    \/ \E d \in SessionInputs : CreateSession(d)
    \/ \E i \in 1..(MaxInvocations + 1), st \in StudentInputs, cr \in CriteriaInputs :
          SubmitEvaluation(i, st, cr)
    \/ \E c \in calls : PostSettle(c)
    \/ \E c \in calls : FetchSessionsSettle(c)
    \/ \E c \in calls : FetchEvaluationsSettle(c)
    \/ \E c \in calls : ServeCheckSession(c)
    \/ \E c \in calls : ServeLogin(c)
    \/ \E c \in calls : ServeRegister(c)
    \/ \E c \in calls : ServeUpdateProfile(c)
    \/ \E c \in calls : ServeSessions(c)
    \/ \E c \in calls : ServeEvaluations(c)
    \/ \E c \in calls : ServeCreateSession(c)
    \/ \E c \in calls : ServeSubmitEvaluation(c)
    \/ \E c \in calls : ServeReject(c)

Spec == Init /\ [][Next]_vars

\* ------------------------------------------------- the views, applied alone
\* calculateScores applied to any collection of at most MaxEvaluations
\* evaluations held in memory.
SeqsUpTo(S, n) == UNION {[1..k -> S] : k \in 0..n}

EvaluationInputs ==
    [gdSessionId : {1, 2}, studentId : {"u2", "u3"},
     evaluatorRole : {"student", "instructor"},
     criteria : {Criteria(8, 6, 7, 5, 9), Criteria(10, 10, 10, 10, 10)}]

HeldEvaluation(i, e) ==
    [id |-> i, gdSessionId |-> e.gdSessionId, studentId |-> e.studentId,
     evaluatorId |-> IF e.evaluatorRole = "instructor" THEN "u1" ELSE "u4",
     evaluatorRole |-> e.evaluatorRole, criteria |-> e.criteria]

Settled ==
    /\ authLoading = FALSE
    /\ token = NoToken
    /\ gdLoading = FALSE
    /\ calls = {}
    /\ mounted = TRUE
    /\ invoked = 0
    /\ loggedOutAt = 0
    /\ dbNames = [a \in Accounts |-> "n0"]
    /\ dbSessions = <<>>
    /\ dbEvaluations = <<>>
    /\ last = Step

ScoresInit ==
    /\ user = NoUser
    /\ sessions = <<>>
    /\ \E es \in SeqsUpTo(EvaluationInputs, MaxEvaluations) :
          evaluations = [i \in 1..Len(es) |-> HeldEvaluation(i, es[i])]
    /\ Settled

CalculateScores(sessionId, studentId) ==
    /\ last' = [op |-> "calculateScores", ev |-> "done", why |-> "ok",
                sessionId |-> sessionId, studentId |-> studentId,
                res |-> calculateScores(evaluations, sessionId, studentId)]
    /\ UNCHANGED <<authVars, gdVars, calls, mounted, loggedOutAt, invoked, dbVars>>

ScoresNext == \E sessionId \in {1, 2}, studentId \in {"u2", "u3"} :
                 CalculateScores(sessionId, studentId)

ScoresSpec == ScoresInit /\ [][ScoresNext]_vars

\* getSessionsForUser applied for any user to any collection of at most
\* MaxSessions sessions held in memory.
SessionInputRows ==
    [participants : {{}, {"r1"}, {"r2"}}, evaluators : {{}, {"r1"}, {"r2"}},
     createdBy : {"u1", "u2"}]

UserInputs ==
    {NoUser,
     [id |-> "u1", name |-> "n0", role |-> "instructor", rollNumber |-> Undefined],
     [id |-> "u1", name |-> "n0", role |-> "instructor", rollNumber |-> "r1"],
     [id |-> "u2", name |-> "n0", role |-> "student", rollNumber |-> "r2"],
     [id |-> "u2", name |-> "n0", role |-> "student", rollNumber |-> Undefined]}

ViewInit ==
    /\ user \in UserInputs
    /\ evaluations = <<>>
    /\ \E ss \in SeqsUpTo(SessionInputRows, MaxSessions) :
          sessions = [i \in 1..Len(ss) |->
                        [id |-> i, participants |-> ss[i].participants,
                         evaluators |-> ss[i].evaluators, createdBy |-> ss[i].createdBy]]
    /\ Settled

GetSessionsForUser ==
    /\ last' = [op |-> "getSessionsForUser", ev |-> "done", why |-> "ok",
                res |-> getSessionsForUser(user, sessions)]
    /\ UNCHANGED <<authVars, gdVars, calls, mounted, loggedOutAt, invoked, dbVars>>

ViewNext == GetSessionsForUser

ViewSpec == ViewInit /\ [][ViewNext]_vars

\* ------------------------------------ the data provider, every request served
\* The session check, the data fetches, createSession and submitEvaluation
\* when no request is refused and no network failure occurs: every await
\* yields the 2xx response the backend gave.
Succeeded == last'.why \notin {"non2xx", "netfail"}

SuccessNext ==
    \/ CheckSessionStart
    \/ \E c \in calls : CheckSessionSettle(c) /\ Succeeded
    \/ \E d \in SessionInputs : CreateSession(d)
    \/ \E i \in 1..(MaxInvocations + 1), st \in StudentInputs, cr \in CriteriaInputs :
          SubmitEvaluation(i, st, cr)
    \/ \E c \in calls : PostSettle(c) /\ Succeeded
    \/ \E c \in calls : FetchSessionsSettle(c) /\ Succeeded
    \/ \E c \in calls : FetchEvaluationsSettle(c) /\ Succeeded
    \/ \E c \in calls : ServeCheckSession(c)
    \/ \E c \in calls : ServeSessions(c)
    \/ \E c \in calls : ServeEvaluations(c)
    \/ \E c \in calls : ServeCreateSession(c)
    \/ \E c \in calls : ServeSubmitEvaluation(c)

SuccessSpec == Init /\ [][SuccessNext]_vars

CreateSessionInvoked ==
    \/ last' = Event("createSession", "error", "precondition")
    \/ \E c \in calls' : /\ c.op = "createSession" /\ c.pc = "post"
                         /\ \A d \in calls : d.id # c.id

\* C2: createSession invoked while user is null or not an instructor fails
\* with an error, sends no request, and leaves sessions, evaluations,
\* isLoading and the stored token unchanged.
C2_NonInstructorCreateSessionFails ==
    [][(CreateSessionInvoked /\ (user = NoUser \/ user.role # "instructor"))
       => (/\ last' = Event("createSession", "error", "precondition")
           /\ UNCHANGED <<calls, sessions, evaluations, gdLoading, token>>)]_vars

C2_Witness ==
    /\ last = Event("createSession", "error", "precondition")
    /\ user.role = "student"
    /\ token # NoToken

\* The evaluations of the pair (sessionId, studentId) that calculateScores was
\* last applied to, by position in the collection, and their sums.
CriteriaFields ==
    {"articulation", "relevance", "leadership", "nonVerbalCommunication", "impression"}

PairIdx ==
    {i \in DOMAIN evaluations : /\ evaluations[i].gdSessionId = last.sessionId
                                /\ evaluations[i].studentId = last.studentId}
PeerIdx == {i \in PairIdx : evaluations[i].evaluatorRole = "student"}
InstrIdx == {i \in PairIdx : evaluations[i].evaluatorRole = "instructor"}
FirstOf(I) == CHOOSE i \in I : \A j \in I : i <= j

RECURSIVE SumAt(_, _)
SumAt(I, f) ==
    IF I = {} THEN 0
    ELSE LET i == CHOOSE j \in I : TRUE IN evaluations[i].criteria[f] + SumAt(I \ {i}, f)

\* the fraction x is n / d
IsQuotient(x, n, d) == x[2] > 0 /\ d > 0 /\ x[1] * d = n * x[2]

\* C3, as stated: with only peer evaluations of the pair (at least one), the
\* final score equals the peer average in each of the five criteria.
C3_PeerOnlyFinalIsPeerAverage ==
    (last.op = "calculateScores" /\ PairIdx # {} /\ InstrIdx = {})
    => \A f \in CriteriaFields : last.res.finalScores[f] = last.res.peerAverage[f]

\* C3, amended: with only peer evaluations of the pair (at least one), the
\* final score is half the peer average in each of the five criteria.
C3_PeerOnlyFinalIsHalfPeerAverage ==
    (last.op = "calculateScores" /\ PairIdx # {} /\ InstrIdx = {})
    => \A f \in CriteriaFields :
          /\ IsQuotient(last.res.peerAverage[f], SumAt(PeerIdx, f), Cardinality(PeerIdx))
          /\ IsQuotient(last.res.finalScores[f], SumAt(PeerIdx, f), 2 * Cardinality(PeerIdx))

C3_Witness ==
    /\ last.op = "calculateScores"
    /\ InstrIdx = {}
    /\ Cardinality(PeerIdx) = 2
    /\ last.res.peerAverage.leadership = <<17, 2>>
    /\ last.res.finalScores.leadership = <<17, 4>>

\* C4: with only instructor evaluations of the pair (at least one), the final
\* score is half the instructor score (the first instructor evaluation's) in
\* each of the five criteria.
C4_InstructorOnlyFinalIsHalfInstructor ==
    (last.op = "calculateScores" /\ PairIdx # {} /\ PeerIdx = {})
    => \A f \in CriteriaFields :
          /\ last.res.instructorScores[f] = <<evaluations[FirstOf(InstrIdx)].criteria[f], 1>>
          /\ IsQuotient(last.res.finalScores[f], evaluations[FirstOf(InstrIdx)].criteria[f], 2)

C4_Witness ==
    /\ last.op = "calculateScores"
    /\ PeerIdx = {}
    /\ Cardinality(InstrIdx) = 2
    /\ \E i \in InstrIdx : evaluations[i].criteria # evaluations[FirstOf(InstrIdx)].criteria
    /\ last.res.finalScores.nonVerbalCommunication = <<5, 2>>

\* C5: calculateScores equals the reference: over the evaluations of the pair,
\* peerAverage is the per-criterion mean of the student-role ones (zero if
\* none), instructorScores the criteria of the first instructor-role one (zero
\* if none), finalScores their sum halved; an empty set gives three all-zero
\* records, and one peer with articulation 8 and an instructor with 10 give
\* final articulation 9.
RefPeer(f) ==
    IF PeerIdx = {} THEN <<0, 1>> ELSE <<SumAt(PeerIdx, f), Cardinality(PeerIdx)>>
RefInstructor(f) ==
    IF InstrIdx = {} THEN 0 ELSE evaluations[FirstOf(InstrIdx)].criteria[f]

C5_CalculateScoresIsReference ==
    last.op = "calculateScores"
    => /\ \A f \in CriteriaFields :
            /\ IsQuotient(last.res.peerAverage[f], RefPeer(f)[1], RefPeer(f)[2])
            /\ IsQuotient(last.res.instructorScores[f], RefInstructor(f), 1)
            /\ IsQuotient(last.res.finalScores[f],
                          RefPeer(f)[1] + RefInstructor(f) * RefPeer(f)[2],
                          2 * RefPeer(f)[2])
       /\ PairIdx = {} =>
            \A f \in CriteriaFields :
               /\ last.res.peerAverage[f] = <<0, 1>>
               /\ last.res.instructorScores[f] = <<0, 1>>
               /\ last.res.finalScores[f] = <<0, 1>>
       /\ (/\ Cardinality(PeerIdx) = 1 /\ Cardinality(InstrIdx) = 1
           /\ evaluations[FirstOf(PeerIdx)].criteria.articulation = 8
           /\ evaluations[FirstOf(InstrIdx)].criteria.articulation = 10)
          => last.res.finalScores.articulation = <<9, 1>>

C5_Witness ==
    /\ last.op = "calculateScores"
    /\ Cardinality(PeerIdx) = 2
    /\ Cardinality(InstrIdx) = 1
    /\ last.res.peerAverage.leadership = <<17, 2>>
    /\ last.res.finalScores.leadership = <<37, 4>>

\* r holds exactly the elements of ss at the positions I, in their order
IsSelection(r, ss, I) ==
    /\ Len(r) = Cardinality(I)
    /\ \A i \in I : r[Cardinality({j \in I : j <= i})] = ss[i]

\* C6: for an instructor, getSessionsForUser returns as evaluatingSessions
\* exactly the sessions the user created and no participatingSessions, even
\* when the instructor's roll number is listed in a session.
C6_InstructorSeesOwnSessions ==
    (last.op = "getSessionsForUser" /\ user.role = "instructor")
    => /\ last.res.participatingSessions = <<>>
       /\ IsSelection(last.res.evaluatingSessions, sessions,
                      {i \in DOMAIN sessions : sessions[i].createdBy = user.id})

C6_Witness ==
    /\ last.op = "getSessionsForUser"
    /\ user.role = "instructor"
    /\ \E i, j \in DOMAIN sessions :
          /\ user.rollNumber \in sessions[i].participants
          /\ sessions[i].createdBy # user.id
          /\ sessions[j].createdBy = user.id
          /\ last.res.evaluatingSessions = <<sessions[j]>>

\* C7: for a student, participatingSessions are exactly the sessions listing
\* the user's roll number as participant and evaluatingSessions exactly those
\* listing it as evaluator, each computed on its own: a session listing it in
\* both is in both, a session the student created but is not listed in is in
\* neither.
C7_StudentSeesListedSessions ==
    (last.op = "getSessionsForUser" /\ user.role = "student")
    => /\ IsSelection(last.res.participatingSessions, sessions,
                      {i \in DOMAIN sessions : user.rollNumber \in sessions[i].participants})
       /\ IsSelection(last.res.evaluatingSessions, sessions,
                      {i \in DOMAIN sessions : user.rollNumber \in sessions[i].evaluators})

C7_Witness ==
    /\ last.op = "getSessionsForUser"
    /\ user.role = "student"
    /\ \E i, j \in DOMAIN sessions :
          /\ user.rollNumber \in sessions[i].participants \cap sessions[i].evaluators
          /\ sessions[j].createdBy = user.id
          /\ user.rollNumber \notin sessions[j].participants \cup sessions[j].evaluators
          /\ last.res.participatingSessions = <<sessions[i]>>
          /\ last.res.evaluatingSessions = <<sessions[i]>>

\* C8: when the session check started at mount gets a non-2xx response or a
\* network failure, the token is removed, the check does not set user, no
\* error is raised and isLoading becomes false; with no token stored at mount
\* no request is sent and isLoading becomes false.
C8_FailedSessionCheckIsSilent ==
    [][/\ \A c \in calls :
            (c.op = "checkSession" /\ c \notin calls' /\ last'.why \in {"non2xx", "netfail"})
            => (/\ token' = NoToken /\ user' = user /\ c.usr = NoUser
                /\ last'.ev = "done" /\ authLoading' = FALSE)
       /\ (~mounted /\ mounted' /\ token = NoToken)
            => (calls' = {} /\ authLoading' = FALSE /\ last'.ev = "done" /\ user' = NoUser)]_vars

C8_Witness ==
    /\ last = Event("checkSession", "done", "non2xx")
    /\ token = NoToken
    /\ user = NoUser
    /\ ~authLoading

\* C9: logout, in any state and whatever is in flight, sends no request,
\* raises no error, and leaves user = null and no token stored when it returns.
C9_LogoutClearsUserAndToken ==
    [][last'.op = "logout"
       => (last'.ev = "done" /\ user' = NoUser /\ token' = NoToken /\ calls' = calls)]_vars

C9_Witness ==
    /\ last.op = "logout"
    /\ \E c \in calls : c.op = "fetchData" /\ c.usr # NoUser
    /\ user = NoUser
    /\ token = NoToken

\* The steps in which updateProfile is invoked.
UpdateProfileInvoked ==
    \/ last' = Event("updateProfile", "error", "precondition")
    \/ \E c \in calls' : c.op = "updateProfile" /\ \A d \in calls : d.id # c.id

\* C10: updateProfile called while user is null fails with an error, sends no
\* request, and leaves user and the stored token unchanged.
C10_UpdateProfileNeedsUser ==
    [][(UpdateProfileInvoked /\ user = NoUser)
       => (/\ last' = Event("updateProfile", "error", "precondition")
           /\ calls' = calls /\ user' = user /\ token' = token)]_vars

C10_Witness ==
    /\ last = Event("updateProfile", "error", "precondition")
    /\ user = NoUser
    /\ token # NoToken
    /\ calls # {}

\* C11: every evaluation held in memory has evaluatorRole = instructor exactly
\* when its evaluatorId is the createdBy of the in-memory session with its
\* sessionId, and student otherwise.
C11_RoleFollowsSessionOwnership ==
    \A i \in DOMAIN evaluations :
       (evaluations[i].evaluatorRole = "instructor")
       <=> (CreatedByOf(sessions, evaluations[i].gdSessionId) = evaluations[i].evaluatorId)

\* The ids of the records of a collection, in order.
Ids(rows) == [i \in DOMAIN rows |-> rows[i].id]

\* C12: when every request was answered successfully and no operation is in
\* flight, the sessions and evaluations held in memory are the backend's
\* current sessions and evaluations for the user.
C12_SettledDataIsBackendData ==
    (mounted /\ calls = {} /\ user # NoUser)
    => /\ Ids(sessions) = Ids(SessionsFor(user.id))
       /\ Ids(evaluations) = Ids(EvaluationsFor(user.id))

\* The operations of each provider, and whether one of them is in flight.
AuthOps == {"checkSession", "login", "register", "updateProfile", "logout"}
GdOps == {"fetchData", "createSession", "submitEvaluation"}
AuthIdle == mounted /\ \A c \in calls : c.op \notin AuthOps
GdIdle == \A c \in calls : c.op \notin GdOps
Ended == last.ev \in {"done", "error"}

\* C13: in each provider an operation that set isLoading to true has set it
\* back to false when it ends, however it ends (createSession and
\* submitEvaluation throw on their precondition before they set it); so
\* isLoading is false whenever no operation of that provider is in flight and
\* the initial session check has ended.
C13_LoadingFlagIsReset ==
    /\ AuthIdle => ~authLoading
    /\ GdIdle => ~gdLoading
    /\ (Ended /\ last.op \in AuthOps) => ~authLoading
    /\ (Ended /\ last.op \in GdOps /\ last.why # "precondition") => ~gdLoading

C13_Witness ==
    /\ last = Event("createSession", "done", "netfail")
    /\ AuthIdle
    /\ GdIdle
    /\ ~authLoading
    /\ ~gdLoading

\* C14: the stored token changes only in a step in which login or register
\* succeeds, logout runs, or the session check started at mount finds the
\* session invalid and removes it; updateProfile, createSession,
\* submitEvaluation and the data fetch leave it as it is in every outcome.
C14_TokenWrittenOnlyBySignInAndLogout ==
    [][token' # token
       => \/ last' \in {Event("login", "done", "ok"), Event("register", "done", "ok"),
                       Event("logout", "done", "ok")}
          \/ /\ last'.op = "checkSession"
             /\ last'.why \in {"non2xx", "netfail"}
             /\ token' = NoToken]_vars

C14_Witness ==
    /\ last = Event("updateProfile", "error", "non2xx")
    /\ token = TokenOf("u1")
    /\ user.id = "u1"

\* The steps in which the handler of call c goes on after its POST.
PostEnded(c) ==
    /\ c.op \in {"createSession", "submitEvaluation"}
    /\ c.pc = "post"
    /\ \A d \in calls' : ~(d.id = c.id /\ d.pc = "post")

\* The re-fetch of call d is issued in this step.
RefetchIssued(d) ==
    /\ d.op \in {"createSession", "submitEvaluation"}
    /\ d.pc = "sessions"
    /\ \A e \in calls : ~(e.id = d.id /\ e.pc = "sessions")

\* C15: when the POST of createSession or submitEvaluation gets a non-2xx
\* response or a network failure, the call ends with an error, appends nothing
\* and issues no re-fetch; after a 2xx response the record is appended (and
\* the other collection left alone), and a re-fetch is issued only in such a
\* step, with the record already appended.
C15_FailedPostAppendsNothing ==
    [][/\ \A c \in calls :
            PostEnded(c)
            => IF last'.why = "ok"
               THEN /\ c.status = "ok"
                    /\ last'.op = c.op
                    /\ last'.ev \in {"appended", "done"}
                    /\ c.op = "createSession"
                         => /\ Len(sessions') = Len(sessions) + 1
                            /\ SubSeq(sessions', 1, Len(sessions)) = sessions
                            /\ sessions'[Len(sessions')].id = c.body[1].id
                            /\ evaluations' = evaluations
                    /\ c.op = "submitEvaluation"
                         => /\ Len(evaluations') = Len(evaluations) + 1
                            /\ SubSeq(evaluations', 1, Len(evaluations)) = evaluations
                            /\ evaluations'[Len(evaluations')].id = c.body[1].id
                            /\ sessions' = sessions
               ELSE /\ last' \in {Event(c.op, "error", "non2xx"),
                                  Event(c.op, "error", "netfail")}
                    /\ sessions' = sessions
                    /\ evaluations' = evaluations
                    /\ \A d \in calls' : d.id # c.id
       /\ \A d \in calls' :
            RefetchIssued(d)
            => \E c \in calls : PostEnded(c) /\ c.id = d.id /\ c.status = "ok"
                                 /\ last' = Event(c.op, "appended", "ok")]_vars

C15_Witness ==
    /\ last = Event("createSession", "error", "non2xx")
    /\ calls = {}
    /\ Len(sessions) = 1
    /\ sessions = FormatSessions(dbSessions)

\* The session ids the views can be asked about.
SessionIds == 1..(MaxInvocations + 1)

\* C16: the collections held in memory are scoped to the current user: with
\* no user (after logout) none is held, so getSessionById and
\* getEvaluationsForSession return nothing and calculateScores all zeros; with
\* a user, every session held is one the backend serves to that user and
\* every evaluation held is of such a session.
C16_CollectionsScopedToUser ==
    /\ user = NoUser
         => \A id \in SessionIds :
              /\ getSessionById(sessions, id) = <<>>
              /\ getEvaluationsForSession(evaluations, id) = <<>>
              /\ \A st \in Accounts :
                    calculateScores(evaluations, id, st)
                      = Scores(emptyCriteria, emptyCriteria, emptyCriteria)
    /\ user # NoUser
         => /\ \A i \in DOMAIN sessions :
                 \E j \in DOMAIN dbSessions :
                    dbSessions[j].id = sessions[i].id /\ VisibleTo(user.id, dbSessions[j])
            /\ \A i \in DOMAIN evaluations :
                 \E j \in DOMAIN dbSessions :
                    /\ dbSessions[j].id = evaluations[i].gdSessionId
                    /\ VisibleTo(user.id, dbSessions[j])

\* C17: user is non-null only if a token is in storage.
C17_UserOnlyWithToken == user # NoUser => token # NoToken

\* C18: whenever user is non-null and a token is stored, the stored token is
\* the one the backend issued to that user.
C18_TokenBelongsToUser ==
    (user # NoUser /\ token # NoToken) => token = TokenOf(user.id)

\* C19: once logout has returned, user stays null and no token is stored
\* until a login or register call invoked after that logout succeeds; the
\* response to a request that was in flight when logout ran sets neither.
C19_LogoutIsFinal ==
    [][(loggedOutAt > 0 /\ user = NoUser /\ token = NoToken)
       => \/ user' = NoUser /\ token' = NoToken
          \/ \E c \in calls : /\ c.op \in {"login", "register"}
                               /\ c.id > loggedOutAt
                               /\ c \notin calls'
                               /\ last' = Event(c.op, "done", "ok")]_vars

\* C20: no two sessions held in memory share an id, and no two evaluations
\* held in memory share an id (the backend's ids are distinct).
C20_NoDuplicateIds ==
    /\ \A i, j \in DOMAIN sessions : sessions[i].id = sessions[j].id => i = j
    /\ \A i, j \in DOMAIN evaluations : evaluations[i].id = evaluations[j].id => i = j

====
